---- MODULE Spec2Model ----
(***************************************************************************)
(* Equipment-report backend (src/backend/server.js) with its mongoose      *)
(* schema (src/unnamed/part_001, second file: models/Equipment).           *)
(*                                                                         *)
(* Every HTTP handler is one action.  The document store, the uploads      *)
(* directory and the wall clock are the state; `res` holds the response    *)
(* sent last.  `created`, `deleted` and `updated` are history variables    *)
(* used only by the properties.  The mobile client (src/unnamed/part_000)  *)
(* is modelled with its component state and its requests in flight; only   *)
(* SpecClient runs it.                                                      *)
(***************************************************************************)
EXTENDS Integers, Sequences, FiniteSets, TLC

VARIABLES
    store,      \* the equipments collection: a set of documents
    uploads,    \* the uploads/ directory: filename -> bytes
    now,        \* Date.now(), in milliseconds
    nextOid,    \* number of ObjectIds generated so far
    res,        \* the response sent last, with the route and :id it answers
    created,    \* history: _ids answered 201
    deleted,    \* history: _ids removed by a DELETE answered 200
    updated,    \* history: stored _ids that had a PUT answered 200
    \* the mobile client (App component, src/unnamed/part_000)
    equipments,     \* useState: the list shown
    loading,        \* useState
    refreshing,     \* useState
    modalVisible,   \* useState
    form,           \* useState: title, description, location, laboratory
    net,            \* the client's fetch() calls awaiting their response
    failed          \* history: some response was not ok

server == <<store, uploads, now, nextOid, res, created, deleted, updated>>
client == <<equipments, loading, refreshing, modalVisible, form, net, failed>>
vars == <<server, client>>

\* ------------------------------------------------------------------ bounds
MaxReports == 2     \* ObjectIds that may be generated
MaxClock == 1       \* last millisecond of the clock
MaxInFlight == 2    \* requests of the client awaiting their response
MaxSubmits == 2     \* reports the client submits
MaxListed == 1      \* reports the client submits before it works on the list

\* ------------------------------------------------------ program constants
TitleMaxLen == 100
DescriptionMaxLen == 500
LocationMaxLen == 100
LaboratoryMaxLen == 100
FileSizeLimit == 5 * 1024 * 1024

\* Faulty variant: the accepted status values include one more value.
StatusValuesLoose == {"pendente", "em_manutencao", "concluido", "quebrado"}

\* The status enum of the schema, and the list of the update handler.
StatusValues == {"pendente", "em_manutencao", "concluido"}

\* ----------------------------------------------------------- JS values
\* A multipart/JSON body field is either absent (undefined) or a string.
\* The strings of title, description, location and laboratory are sequences
\* of one-character strings so that trim() and length can be computed.
Undefined == [k |-> "undefined"]
Str(s) == [k |-> "string", v |-> s]
Null == [k |-> "null"]

\* JavaScript `!x` for a body field: undefined and "" are falsy.
\* Text fields carry a sequence of characters, datetime and status an atom.
Falsy(x) == x.k = "undefined" \/ x.v = <<>>
FalsyAtom(x) == x.k = "undefined" \/ x.v = ""

WhiteSpace == {" ", "\t", "\n"}

RECURSIVE TrimStart(_)
TrimStart(s) ==
    IF s # <<>> /\ Head(s) \in WhiteSpace THEN TrimStart(Tail(s)) ELSE s

RECURSIVE TrimEnd(_)
TrimEnd(s) ==
    IF s # <<>> /\ s[Len(s)] \in WhiteSpace
    THEN TrimEnd(SubSeq(s, 1, Len(s) - 1))
    ELSE s

\* String.prototype.trim
Trim(s) == TrimEnd(TrimStart(s))

\* String.prototype.startsWith
StartsWith(s, p) == Len(s) >= Len(p) /\ SubSeq(s, 1, Len(p)) = p

Rep(c, n) == [i \in 1..n |-> c]

\* ------------------------------------------------------------ ObjectIds
\* The n-th ObjectId the driver generates, as its 24-digit hex string.
Oid(n) == "65f0c0ffee0000000000000" \o ToString(n)

\* Mongoose's cast of the :id path parameter to ObjectId: a 24-digit hex
\* string passes (every 24-character parameter of this model is hex), any
\* other string such as "unknown" raises CastError.
IsValidObjectId(s) == Len(s) = 24

Ids(S) == {d._id : d \in S}

\* --------------------------------------------------------------- schema
\* Date cast of the datetime path: strings Date can parse, in milliseconds.
KnownDates == ("1970-01-01T00:00:00.000Z" :> 0)

CastDateFails(v) == v.k = "string" /\ v.v \notin DOMAIN KnownDates
CastDate(v) == IF v.k = "date" THEN v.ms ELSE KnownDates[v.v]

\* Faulty variant: the String paths have no maxlength.
TextErrorsRequiredOnly(path, value, maxlen) ==
    IF Trim(value) = <<>> THEN {path} ELSE {}

\* required + maxlength of one String path (the value is trimmed by the
\* schema's trim setter before the validators run).
TextErrors(path, value, maxlen) ==
    IF Trim(value) = <<>> \/ Len(Trim(value)) > maxlen THEN {path} ELSE {}

\* Document validation run by save(): the set of failing paths.
ValidationErrors(d) ==
    TextErrors("title", d.title, TitleMaxLen)
        \cup TextErrors("description", d.description, DescriptionMaxLen)
        \cup TextErrors("location", d.location, LocationMaxLen)
        \cup TextErrors("laboratory", d.laboratory, LaboratoryMaxLen)
        \cup (IF CastDateFails(d.datetime) THEN {"datetime"} ELSE {})
        \cup (IF d.status \notin StatusValues THEN {"status"} ELSE {})

\* ---------------------------------------------------------------- multer
NoFile == [k |-> "none"]

\* storage.filename
Filename(file) == ToString(now) \o "-" \o file.originalname

\* upload.fileFilter
FileFilter(file) == StartsWith(file.mimetype, <<"i", "m", "a", "g", "e", "/">>)

\* upload.single('photo'): the error passed to next(), the uploads directory
\* afterwards and req.file.  A file over the size limit is written to its
\* destination path and unlinked again when multer aborts the request.
UploadSingle(file) ==
    IF file.k = "none"
    THEN [err |-> "none", dir |-> uploads, file |-> Null]
    ELSE IF ~FileFilter(file)
    THEN [err |-> "Error", dir |-> uploads, file |-> Null]
    ELSE IF file.size > FileSizeLimit
    THEN [err |-> "LIMIT_FILE_SIZE",
          dir |-> [f \in DOMAIN uploads \ {Filename(file)} |-> uploads[f]],
          file |-> Null]
    ELSE [err |-> "none",
          dir |-> (Filename(file) :> file.bytes) @@ uploads,
          file |-> [k |-> "file", filename |-> Filename(file)]]

\* The error-handling middleware: status code for an error passed to next().
ErrorStatus(err) == IF err = "LIMIT_FILE_SIZE" THEN 400 ELSE 500

\* --------------------------------------------------------------- handlers
Response(op, id, code, body) == [op |-> op, id |-> id, code |-> code, body |-> body]

\* Faulty variant: the create handler takes the status from the request body.
CreateStatusFromBody(r) == IF FalsyAtom(r.status) THEN "pendente" ELSE r.status.v

\* The status written by the create handler.
CreateStatus(r) == "pendente"

\* Faulty variant: the default datetime is a date fixed when the server
\* started, not the date of the request.
NewEquipmentStaleDefault(r, file) ==
    [_id |-> Oid(nextOid + 1),
     title |-> Trim(r.title.v),
     description |-> Trim(r.description.v),
     location |-> Trim(r.location.v),
     laboratory |-> Trim(r.laboratory.v),
     datetime |-> IF FalsyAtom(r.datetime) THEN [k |-> "date", ms |-> 0] ELSE r.datetime,
     photo |-> IF file.k = "file" THEN file.filename ELSE "null",
     status |-> CreateStatus(r)]

\* new Equipment({...}) of the create handler.
NewEquipment(r, file) ==
    [_id |-> Oid(nextOid + 1),
     title |-> Trim(r.title.v),
     description |-> Trim(r.description.v),
     location |-> Trim(r.location.v),
     laboratory |-> Trim(r.laboratory.v),
     datetime |-> IF FalsyAtom(r.datetime) THEN [k |-> "date", ms |-> now] ELSE r.datetime,
     photo |-> IF file.k = "file" THEN file.filename ELSE "null",
     status |-> CreateStatus(r)]

\* The document save() inserts: casts applied, timestamps set.
Saved(d) ==
    [_id |-> d._id, title |-> d.title, description |-> d.description,
     location |-> d.location, laboratory |-> d.laboratory,
     datetime |-> CastDate(d.datetime), photo |-> d.photo, status |-> d.status,
     createdAt |-> now, updatedAt |-> now, version |-> 0]

\* The required-field check of the create handler.
MissingRequired(r) ==
    Falsy(r.title) \/ Falsy(r.description) \/ Falsy(r.location) \/ Falsy(r.laboratory)

\* POST /api/equipments
PostEquipment(r) ==
    LET up == UploadSingle(r.photo)
        doc == NewEquipment(r, up.file)
    IN  /\ uploads' = up.dir
        /\ UNCHANGED <<now, deleted, updated>>
        /\ IF up.err # "none"
           THEN /\ res' = Response("create", "", ErrorStatus(up.err), "error")
                /\ UNCHANGED <<store, nextOid, created>>
           ELSE IF MissingRequired(r)
           THEN /\ res' = Response("create", "", 400, "error")
                /\ UNCHANGED <<store, nextOid, created>>
           ELSE /\ nextOid < MaxReports
                /\ nextOid' = nextOid + 1
                /\ IF ValidationErrors(doc) # {}
                   THEN /\ res' = Response("create", "", 400, "error")
                        /\ UNCHANGED <<store, created>>
                   ELSE /\ store' = store \cup {Saved(doc)}
                        /\ created' = created \cup {doc._id}
                        /\ res' = Response("create", "", 201, Saved(doc))

\* GET /api/equipments ----------------------------------------------------
\* Faulty variant: sort({createdAt: 1}), oldest first.
SortByCreatedAtAsc(S) ==
    {s \in [1..Cardinality(S) -> S] :
        /\ \A i, j \in 1..Cardinality(S) : i # j => s[i] # s[j]
        /\ \A i, j \in 1..Cardinality(S) : i < j => s[i].createdAt <= s[j].createdAt}

\* find().sort({createdAt: -1}): the documents in an order of non-increasing
\* createdAt; documents with equal keys come in any order.
SortByCreatedAtDesc(S) ==
    {s \in [1..Cardinality(S) -> S] :
        /\ \A i, j \in 1..Cardinality(S) : i # j => s[i] # s[j]
        /\ \A i, j \in 1..Cardinality(S) : i < j => s[i].createdAt >= s[j].createdAt}

GetEquipments ==
    /\ \E s \in SortByCreatedAtDesc(store) : res' = Response("list", "", 200, s)
    /\ UNCHANGED <<store, uploads, now, nextOid, created, deleted, updated>>

\* PUT /api/equipments/:id -------------------------------------------------
\* Faulty variant: the update handler checks only that a status is given.
InvalidStatusFalsyOnly(status) == FalsyAtom(status)

\* The status check of the update handler.
InvalidStatus(status) == FalsyAtom(status) \/ status.v \notin StatusValues

\* Faulty variant: the update rewrites the document as a fresh save does.
UpdatedDocResaved(d, status) ==
    [d EXCEPT !.status = status, !.updatedAt = now, !.createdAt = now]

\* Faulty variant: a concluded report keeps its status.
UpdatedDocTerminal(d, status) ==
    [d EXCEPT !.status = IF d.status = "concluido" THEN d.status ELSE status,
              !.updatedAt = now]

\* findByIdAndUpdate(id, {status}, {new: true}): the document after the
\* update; the timestamps plugin sets updatedAt.
UpdatedDoc(d, status) == [d EXCEPT !.status = status, !.updatedAt = now]

PutEquipment(id, status) ==
    /\ UNCHANGED <<uploads, now, nextOid, created, deleted>>
    /\ IF InvalidStatus(status)
       THEN /\ res' = Response("update", id, 400, "error")
            /\ UNCHANGED <<store, updated>>
       ELSE IF ~IsValidObjectId(id)
       THEN /\ res' = Response("update", id, 500, "error")
            /\ UNCHANGED <<store, updated>>
       ELSE IF id \notin Ids(store)
       THEN /\ res' = Response("update", id, 404, "error")
            /\ UNCHANGED <<store, updated>>
       ELSE LET d == CHOOSE e \in store : e._id = id
            IN  /\ store' = (store \ {d}) \cup {UpdatedDoc(d, status.v)}
                /\ updated' = updated \cup {id}
                /\ res' = Response("update", id, 200, UpdatedDoc(d, status.v))

\* DELETE /api/equipments/:id ----------------------------------------------
\* Faulty variant: findById in place of findByIdAndDelete.
RemovedNothing(S, d) == S

\* findByIdAndDelete(id): the collection afterwards.
Removed(S, d) == S \ {d}

DeleteEquipment(id) ==
    /\ UNCHANGED <<uploads, now, nextOid, created>>
    /\ IF ~IsValidObjectId(id)
       THEN /\ res' = Response("delete", id, 500, "error")
            /\ UNCHANGED <<store, deleted, updated>>
       ELSE IF id \notin Ids(store)
       THEN /\ res' = Response("delete", id, 404, "error")
            /\ UNCHANGED <<store, deleted, updated>>
       ELSE LET d == CHOOSE e \in store : e._id = id
            IN  /\ store' = Removed(store, d)
                /\ deleted' = deleted \cup {id}
                /\ updated' = updated \ {id}
                /\ res' = Response("delete", id, 200, d)

\* One millisecond passes.
Tick ==
    /\ now < MaxClock
    /\ now' = now + 1
    /\ UNCHANGED <<store, uploads, nextOid, res, created, deleted, updated>>
    /\ UNCHANGED <<equipments, loading, refreshing, modalVisible, form, net, failed>>

\* ------------------------------------------------------------- requests
Ok == Str(<<"a">>)
Padded == Str(<<" ", "a", " ">>)
Empty == Str(<<>>)
Blank == Str(<<" ", " ">>)

Jpeg == <<"i", "m", "a", "g", "e", "/", "j", "p", "e", "g">>
Pdf == <<"a", "p", "p", "l", "i", "c", "a", "t", "i", "o", "n", "/", "p", "d", "f">>

Photo(mime, size, bytes) ==
    [k |-> "part", originalname |-> "foto.jpg", mimetype |-> mime,
     size |-> size, bytes |-> bytes]

Base ==
    [title |-> Ok, description |-> Ok, location |-> Ok, laboratory |-> Ok,
     datetime |-> Undefined, status |-> Undefined, photo |-> NoFile]

TextFields == {"title", "description", "location", "laboratory"}

MaxLenOf(f) ==
    CASE f = "title" -> TitleMaxLen
      [] f = "description" -> DescriptionMaxLen
      [] f = "location" -> LocationMaxLen
      [] f = "laboratory" -> LaboratoryMaxLen

BadText(f) == {Undefined, Empty, Blank, Str(Rep("x", MaxLenOf(f) + 1))}

Photos ==
    {Photo(Jpeg, 1024, "B1"), Photo(Jpeg, 1024, "B2"),
     Photo(Pdf, 1024, "B1"), Photo(Jpeg, FileSizeLimit + 1, "B2")}

\* Create requests without a photo part: the valid form, and the form with
\* one text field bad or padded, or with a client-supplied status.
CreateRequests ==
    {Base}
        \cup UNION {{[Base EXCEPT ![f] = v] : v \in BadText(f) \cup {Padded}} :
                        f \in TextFields}
        \cup {[Base EXCEPT !.status = Str(s)] : s \in {"concluido", "quebrado"}}

\* Create requests with a photo part, with and without the title.
UploadRequests ==
    {Base}
        \cup {[Base EXCEPT !.photo = p] : p \in Photos}
        \cup {[Base EXCEPT !.photo = p, !.title = Undefined] : p \in Photos}
        \cup {[Base EXCEPT !.photo = p, !.laboratory = Blank] : p \in Photos}

\* Create requests in which the client supplies a status.
StatusRequests ==
    {[Base EXCEPT !.status = Str(s)] : s \in StatusValues \cup {"quebrado"}}

IdParams == {Oid(n) : n \in 1..MaxReports} \cup {"unknown"}

StatusBodies ==
    {Undefined, Str(""), Str("quebrado")} \cup {Str(s) : s \in StatusValues}

\* ----------------------------------------------------------- specification
ServerInit ==
    /\ store = {}
    /\ uploads = << >>
    /\ now = 0
    /\ nextOid = 0
    /\ res = Response("none", "", 0, "none")
    /\ created = {}
    /\ deleted = {}
    /\ updated = {}

\* ---------------------------------------------------------------- client
Idle == [kind |-> "idle", phase |-> "idle"]

\* The form state after the setTitle(''), ... resets.
EmptyForm ==
    [title |-> <<>>, description |-> <<>>, location |-> <<>>, laboratory |-> <<>>]

\* useState initial values; no request in flight.
ClientInit ==
    /\ equipments = <<>>
    /\ loading = FALSE
    /\ refreshing = FALSE
    /\ modalVisible = FALSE
    /\ form = EmptyForm
    /\ net = [i \in 1..MaxInFlight |-> Idle]
    /\ failed = FALSE

\* The server alone: the client is not mounted.
Init == ServerInit /\ ClientInit

Create == \E r \in CreateRequests : PostEquipment(r) /\ UNCHANGED client
List == GetEquipments /\ UNCHANGED client
Update ==
    \E id \in IdParams, s \in StatusBodies : PutEquipment(id, s) /\ UNCHANGED client
Delete == \E id \in IdParams : DeleteEquipment(id) /\ UNCHANGED client

Next == Create \/ List \/ Update \/ Delete \/ Tick

Spec == Init /\ [][Next]_vars

\* The same server driven by create requests that carry photo parts.
CreateUpload == \E r \in UploadRequests : PostEquipment(r) /\ UNCHANGED client
UpdateDone ==
    \E id \in IdParams : PutEquipment(id, Str("concluido")) /\ UNCHANGED client

NextUpload == CreateUpload \/ List \/ UpdateDone \/ Delete \/ Tick

SpecUpload == Init /\ [][NextUpload]_vars


\* The same server when every create request carries a client status.
CreateWithStatus == \E r \in StatusRequests : PostEquipment(r) /\ UNCHANGED client

NextStatus == CreateWithStatus \/ List \/ Update \/ Delete \/ Tick

SpecStatus == Init /\ [][NextStatus]_vars

\* The same server driven by create requests with fields at and over their
\* maximum length.
LengthRequests ==
    {Base}
        \cup {[f \in DOMAIN Base |->
                  IF f \in TextFields THEN Str(Rep("x", MaxLenOf(f))) ELSE Base[f]]}
        \cup {[Base EXCEPT ![f] = Str(Rep("x", MaxLenOf(f) + 1))] : f \in TextFields}

CreateLength == \E r \in LengthRequests : PostEquipment(r) /\ UNCHANGED client

NextLength == CreateLength \/ List \/ UpdateDone \/ Delete \/ Tick

SpecLength == Init /\ [][NextLength]_vars

\* The same server driven by create requests with and without a datetime.
DatetimeRequests ==
    {[Base EXCEPT !.datetime = v] :
        v \in {Undefined, Str(""), Str("1970-01-01T00:00:00.000Z"), Str("amanha")}}

CreateDatetime == \E r \in DatetimeRequests : PostEquipment(r) /\ UNCHANGED client

NextDatetime == CreateDatetime \/ List \/ UpdateDone \/ Delete \/ Tick

SpecDatetime == Init /\ [][NextDatetime]_vars

\* ------------------------------------------------- client and server
\* A fetch() call whose response has not arrived yet.
Request(kind, id, arg) == [kind |-> kind, phase |-> "request", id |-> id, arg |-> arg]

\* What the client's promise resolves to: response.ok and response.json().
Reply(m) ==
    [kind |-> m.kind, phase |-> "response", id |-> m.id, arg |-> m.arg,
     ok |-> (res'.code >= 200 /\ res'.code <= 299), body |-> res'.body]

HasFreeSlot == \E i \in 1..MaxInFlight : net[i] = Idle
FreeSlot == CHOOSE i \in 1..MaxInFlight :
                net[i] = Idle /\ \A j \in 1..(i - 1) : net[j] # Idle
Send(m) == net' = [net EXCEPT ![FreeSlot] = m]

InFlight(kind) == {i \in 1..MaxInFlight : net[i].kind = kind}

\* The forms the user types: complete, and with the description left empty.
CompleteForm ==
    [title |-> <<"a">>, description |-> <<"a">>, location |-> <<"a">>,
     laboratory |-> <<"a">>]
ClientForms == {CompleteForm, [CompleteForm EXCEPT !.description = <<>>]}

\* The required-field check of handleSubmit.
FormIncomplete(f) ==
    f.title = <<>> \/ f.description = <<>> \/ f.location = <<>> \/ f.laboratory = <<>>

\* The FormData of handleSubmit (no photo picked).
FormData(f) ==
    [title |-> Str(f.title), description |-> Str(f.description),
     location |-> Str(f.location), laboratory |-> Str(f.laboratory),
     datetime |-> Str("1970-01-01T00:00:00.000Z"), status |-> Undefined,
     photo |-> NoFile]

\* useEffect(() => { fetchEquipments(); }, []): the component is mounted and
\* its first fetch is in flight.
InitClient ==
    /\ ServerInit
    /\ equipments = <<>>
    /\ loading = TRUE
    /\ refreshing = FALSE
    /\ modalVisible = FALSE
    /\ form = EmptyForm
    /\ net = [i \in 1..MaxInFlight |->
                IF i = 1 THEN Request("fetch", "", "none") ELSE Idle]
    /\ failed = FALSE

\* The list is rendered unless the first load is in progress.
ListVisible == ~(loading /\ Len(equipments) = 0)

\* onRefresh of the list: setRefreshing(true); fetchEquipments().
PullRefresh ==
    /\ ListVisible /\ ~modalVisible /\ ~refreshing /\ HasFreeSlot
    /\ refreshing' = TRUE
    /\ loading' = TRUE
    /\ Send(Request("fetch", "", "none"))
    /\ UNCHANGED <<equipments, modalVisible, form, failed>>
    /\ UNCHANGED server

OpenModal ==
    /\ ~modalVisible
    /\ modalVisible' = TRUE
    /\ UNCHANGED <<equipments, loading, refreshing, form, net, failed>>
    /\ UNCHANGED server

CloseModal ==
    /\ modalVisible
    /\ modalVisible' = FALSE
    /\ UNCHANGED <<equipments, loading, refreshing, form, net, failed>>
    /\ UNCHANGED server

\* The text inputs of the modal.
EditForm ==
    /\ modalVisible
    /\ \E f \in ClientForms : f # form /\ form' = f
    /\ UNCHANGED <<equipments, loading, refreshing, modalVisible, net, failed>>
    /\ UNCHANGED server

\* handleSubmit up to its await; the button is disabled while loading.  With
\* an incomplete form it only shows an alert.
HandleSubmit(limit) ==
    /\ modalVisible /\ ~loading
    /\ ~FormIncomplete(form)
    /\ HasFreeSlot
    /\ nextOid + Cardinality(InFlight("submit")) < limit
    /\ loading' = TRUE
    /\ Send(Request("submit", "", form))
    /\ UNCHANGED <<equipments, refreshing, modalVisible, form, failed>>
    /\ UNCHANGED server

Shown == {equipments[k]._id : k \in 1..Len(equipments)}

\* updateStatus up to its await: a status button of a card.
UpdateStatus(id, newStatus) ==
    /\ ListVisible /\ ~modalVisible /\ id \in Shown /\ HasFreeSlot
    /\ Send(Request("update", id, newStatus))
    /\ UNCHANGED <<equipments, loading, refreshing, modalVisible, form, failed>>
    /\ UNCHANGED server

\* handleDelete, confirmed, up to its await.
HandleDelete(id) ==
    /\ ListVisible /\ ~modalVisible /\ id \in Shown /\ HasFreeSlot
    /\ Send(Request("delete", id, "none"))
    /\ UNCHANGED <<equipments, loading, refreshing, modalVisible, form, failed>>
    /\ UNCHANGED server

\* The server handles the request in slot i.
ServeFetch(i) ==
    /\ net[i].kind = "fetch" /\ net[i].phase = "request"
    /\ GetEquipments
    /\ net' = [net EXCEPT ![i] = Reply(net[i])]
    /\ UNCHANGED <<equipments, loading, refreshing, modalVisible, form, failed>>

ServeSubmit(i) ==
    /\ net[i].kind = "submit" /\ net[i].phase = "request"
    /\ PostEquipment(FormData(net[i].arg))
    /\ net' = [net EXCEPT ![i] = Reply(net[i])]
    /\ UNCHANGED <<equipments, loading, refreshing, modalVisible, form, failed>>

ServeUpdate(i) ==
    /\ net[i].kind = "update" /\ net[i].phase = "request"
    /\ PutEquipment(net[i].id, Str(net[i].arg))
    /\ net' = [net EXCEPT ![i] = Reply(net[i])]
    /\ UNCHANGED <<equipments, loading, refreshing, modalVisible, form, failed>>

ServeDelete(i) ==
    /\ net[i].kind = "delete" /\ net[i].phase = "request"
    /\ DeleteEquipment(net[i].id)
    /\ net' = [net EXCEPT ![i] = Reply(net[i])]
    /\ UNCHANGED <<equipments, loading, refreshing, modalVisible, form, failed>>

\* fetchEquipments after its await.
FetchDone(i) ==
    /\ net[i].kind = "fetch" /\ net[i].phase = "response"
    /\ equipments' = IF net[i].ok THEN net[i].body ELSE equipments
    /\ loading' = FALSE
    /\ refreshing' = FALSE
    /\ failed' = (failed \/ ~net[i].ok)
    /\ net' = [net EXCEPT ![i] = Idle]
    /\ UNCHANGED <<modalVisible, form>>
    /\ UNCHANGED server

\* setEquipments(prev => prev.map(...)) of updateStatus.
WithStatus(list, id, newStatus) ==
    [k \in 1..Len(list) |->
        IF list[k]._id = id THEN [list[k] EXCEPT !.status = newStatus] ELSE list[k]]

\* updateStatus after its await.
UpdateDoneAtClient(i) ==
    /\ net[i].kind = "update" /\ net[i].phase = "response"
    /\ equipments' = IF net[i].ok
                     THEN WithStatus(equipments, net[i].id, net[i].arg)
                     ELSE equipments
    /\ failed' = (failed \/ ~net[i].ok)
    /\ net' = [net EXCEPT ![i] = Idle]
    /\ UNCHANGED <<loading, refreshing, modalVisible, form>>
    /\ UNCHANGED server

\* setEquipments(prev => prev.filter(...)) of handleDelete.
Without(list, id) ==
    LET Keep(e) == e._id # id IN SelectSeq(list, Keep)

\* handleDelete after its await.
DeleteDone(i) ==
    /\ net[i].kind = "delete" /\ net[i].phase = "response"
    /\ equipments' = IF net[i].ok THEN Without(equipments, net[i].id) ELSE equipments
    /\ failed' = (failed \/ ~net[i].ok)
    /\ net' = [net EXCEPT ![i] = Idle]
    /\ UNCHANGED <<loading, refreshing, modalVisible, form>>
    /\ UNCHANGED server

\* handleSubmit after its await.  On success it resets the form, closes the
\* modal and calls fetchEquipments(), which sets loading and sends its GET;
\* the finally block then clears loading.
SubmitDone(i) ==
    /\ net[i].kind = "submit" /\ net[i].phase = "response"
    /\ IF net[i].ok
       THEN /\ form' = EmptyForm
            /\ modalVisible' = FALSE
            /\ net' = [net EXCEPT ![i] = Request("fetch", "", "none")]
       ELSE /\ net' = [net EXCEPT ![i] = Idle]
            /\ UNCHANGED <<form, modalVisible>>
    /\ loading' = FALSE
    /\ failed' = (failed \/ ~net[i].ok)
    /\ UNCHANGED <<equipments, refreshing>>
    /\ UNCHANGED server

\* The client submitting reports and reloading the list.
NextClient ==
    \/ PullRefresh \/ OpenModal \/ CloseModal \/ EditForm
    \/ HandleSubmit(MaxSubmits)
    \/ \E i \in 1..MaxInFlight :
          ServeFetch(i) \/ ServeSubmit(i) \/ FetchDone(i) \/ SubmitDone(i)

SpecClient == InitClient /\ [][NextClient]_vars

\* The client with every button of the screen.
NextList ==
    \/ PullRefresh \/ OpenModal \/ CloseModal \/ EditForm
    \/ HandleSubmit(MaxListed)
    \/ \E id \in IdParams, s \in StatusValues : UpdateStatus(id, s)
    \/ \E id \in IdParams : HandleDelete(id)
    \/ \E i \in 1..MaxInFlight :
          \/ ServeFetch(i) \/ ServeSubmit(i) \/ ServeUpdate(i) \/ ServeDelete(i)
          \/ FetchDone(i) \/ SubmitDone(i) \/ UpdateDoneAtClient(i) \/ DeleteDone(i)

SpecList == InitClient /\ [][NextList]_vars

\* ================================================================ properties
IsStatusBody(s) == s.k = "string" /\ s.v \in StatusValues

\* A required text field that is absent, empty, or white space only.
IsBlankField(x) ==
    x.k = "undefined" \/ \A i \in 1..Len(x.v) : x.v[i] \in WhiteSpace

LacksRequired(r) == \E f \in TextFields : IsBlankField(r[f])

IsPart(p) == p.k = "part"
IsImageType(m) == Len(m) >= 6 /\ [i \in 1..6 |-> m[i]] = <<"i", "m", "a", "g", "e", "/">>

\* C1: for every id that is not in the store, well formed or not, a status
\* update with a valid status and a delete answer 404 and leave the store as
\* it was.
C1_AbsentIdIsNotFound ==
    [][\A id \in IdParams :
          id \notin Ids(store) =>
              /\ \A s \in StatusBodies :
                    (IsStatusBody(s) /\ PutEquipment(id, s))
                        => (res'.code = 404 /\ store' = store)
              /\ DeleteEquipment(id) => (res'.code = 404 /\ store' = store)]_vars

\* C2: a create request with one of the four required fields absent, empty
\* or blank is answered 400 and the collection is unchanged.
C2_MissingFieldIs400 ==
    [][\A r \in UploadRequests :
          (LacksRequired(r) /\ PostEquipment(r))
              => (res'.code = 400 /\ store' = store)]_vars

\* C3: every created report is stored and returned with status pendente,
\* whatever status the request carried, and a stored report that never had a
\* successful status update is pendente.
C3_CreatedIsPending ==
    /\ (res.op = "create" /\ res.code = 201)
          => (res.body.status = "pendente" /\ res.body \in store)
    /\ \A d \in store : d._id \notin updated => d.status = "pendente"

C3_Witness ==
    /\ res.op = "create" /\ res.code = 201 /\ res.body \in store
    /\ \E d \in store : d._id \in updated /\ d.status = "concluido"

\* C4: a status update whose status is absent or outside the three values is
\* answered 400 and no stored report changes.
C4_InvalidStatusIs400 ==
    [][\A id \in IdParams, s \in StatusBodies :
          (~IsStatusBody(s) /\ PutEquipment(id, s))
              => (res'.code = 400 /\ store' = store)]_vars

C4_Witness ==
    /\ res.op = "update" /\ res.code = 400
    /\ \E d \in store : d._id = res.id /\ d.status = "em_manutencao"

\* C5 (as stated): the list holds one record per report created and not
\* deleted, each createdAt strictly greater than the next one's.
C5_ListStrictlyDescending ==
    res.op = "list" =>
        /\ res.code = 200
        /\ Len(res.body) = Cardinality(created) - Cardinality(deleted)
        /\ \A i \in 1..(Len(res.body) - 1) :
              res.body[i].createdAt > res.body[i + 1].createdAt

\* C5 (amended): the list holds exactly the stored reports, one record per
\* report created and not deleted, in non-increasing createdAt order; reports
\* created in the same millisecond have equal createdAt.
C5_ListDescending ==
    res.op = "list" =>
        /\ res.code = 200
        /\ Len(res.body) = Cardinality(created) - Cardinality(deleted)
        /\ {res.body[i] : i \in 1..Len(res.body)} = store
        /\ \A i \in 1..(Len(res.body) - 1) :
              res.body[i].createdAt >= res.body[i + 1].createdAt

C5_Witness ==
    /\ res.op = "list" /\ Len(res.body) = 2 /\ deleted = {}
    /\ res.body[1].createdAt = res.body[2].createdAt

\* C6: deleting a stored report removes exactly that record and returns it
\* with 200; deleting an id deleted before answers 404; a deleted report is
\* in no later list and never back in the store.
C6_DeleteOnce ==
    [][/\ \A id \in IdParams :
             DeleteEquipment(id) =>
                 /\ id \in Ids(store) =>
                       /\ res'.code = 200
                       /\ res'.body \in store /\ res'.body._id = id
                       /\ store' = store \ {res'.body}
                 /\ id \in deleted => (res'.code = 404 /\ store' = store)
       /\ Ids(store') \cap deleted' = {}
       /\ res'.op = "list" =>
             \A i \in 1..Len(res'.body) : res'.body[i]._id \notin deleted']_vars

C6_Witness ==
    /\ res.op = "delete" /\ res.code = 404 /\ res.id \in deleted
    /\ store # {}

\* Two documents agree on every persisted field outside `except`.
SameExcept(d, e, except) ==
    \A f \in DOMAIN d \ except : d[f] = e[f]

\* C7 (as stated): a stored report changes only by a successful status update
\* of it, and then only in its status field.
C7_OnlyStatusChanges ==
    [][\A d \in store, e \in store' :
          e._id = d._id =>
              /\ SameExcept(d, e, {"status"})
              /\ e # d => (res'.op = "update" /\ res'.code = 200
                              /\ res'.id = d._id /\ res'.body = e)]_vars

\* C7 (amended): a stored report changes only by a successful status update
\* of it, and then only in status and in the updatedAt timestamp.
C7_OnlyStatusAndUpdatedAtChange ==
    [][\A d \in store, e \in store' :
          e._id = d._id =>
              /\ SameExcept(d, e, {"status", "updatedAt"})
              /\ e # d => (res'.op = "update" /\ res'.code = 200
                              /\ res'.id = d._id /\ res'.body = e)]_vars

C7_Witness ==
    /\ res.op = "update" /\ res.code = 200 /\ res.body \in store
    /\ res.body.status = "concluido"
    /\ res.body.updatedAt > res.body.createdAt
    /\ Cardinality(store) = 2

\* C8: a create request rejected for a missing required field changes neither
\* the collection nor the uploads directory.
C8_RejectedCreateWritesNothing ==
    [][\A r \in UploadRequests :
          (LacksRequired(r) /\ PostEquipment(r) /\ res'.code = 400)
              => (store' = store /\ uploads' = uploads)]_vars

\* C9: a create request whose photo part is not an image is answered 400 and
\* neither a report nor a file is stored.
C9_NonImageIs400 ==
    [][\A r \in UploadRequests :
          (IsPart(r.photo) /\ ~IsImageType(r.photo.mimetype) /\ PostEquipment(r))
              => (res'.code = 400 /\ store' = store /\ uploads' = uploads)]_vars

\* C10: the photo saved for a created report gets a filename that no stored
\* report refers to, and the files of the stored reports keep their bytes.
C10_NoOverwrite ==
    [][(res'.op = "create" /\ res'.code = 201 /\ created' # created
           /\ res'.body.photo # "null")
          => \A d \in store :
                /\ d.photo # res'.body.photo
                /\ (d.photo \in DOMAIN uploads /\ d.photo \in DOMAIN uploads')
                      => uploads'[d.photo] = uploads[d.photo]]_vars


\* C11: for a stored report in any status and any of the three values, a
\* status update answers 200 with the report carrying the new status, the
\* stored report has it, and a list returns the stored reports as they are.
C11_AnyTransition ==
    [][/\ \A id \in IdParams, s \in {"pendente", "em_manutencao", "concluido"} :
             (id \in Ids(store) /\ PutEquipment(id, Str(s)))
                 => /\ res'.code = 200
                    /\ res'.body._id = id /\ res'.body.status = s
                    /\ res'.body \in store'
                    /\ Ids(store') = Ids(store)
       /\ GetEquipments
             => (res'.code = 200
                    /\ \A d \in store : \E i \in 1..Len(res'.body) : res'.body[i] = d)]_vars

C11_Witness ==
    /\ res.op = "list" /\ res.code = 200
    /\ \E i \in 1..Len(res.body) :
          /\ res.body[i].status = "pendente"
          /\ res.body[i]._id \in updated
          /\ res.body[i].updatedAt > res.body[i].createdAt

\* C12: every stored report has one of the three status values, after any
\* sequence of valid and invalid requests.
C12_StatusInEnum ==
    \A d \in store : d.status \in {"pendente", "em_manutencao", "concluido"}

C12_Witness ==
    /\ res.op = "update" /\ res.code = 400
    /\ \E d, e \in store : d.status = "concluido" /\ e.status = "pendente"


\* The length bound the data model gives each text field.
LengthBound(f) == IF f = "description" THEN 500 ELSE 100

IsOversized(r) ==
    \E f \in TextFields : r[f].k = "string" /\ Len(r[f].v) > LengthBound(f)

NoDatetime(r) == r.datetime.k = "undefined" \/ r.datetime.v = ""

\* C14 (as stated): a create request with four valid fields is answered 201
\* whatever string it carries as datetime, and without a datetime the stored
\* datetime is the time of the request.
C14_AnyDatetimeAccepted ==
    [][\A r \in DatetimeRequests :
          PostEquipment(r) =>
              /\ res'.code = 201 /\ res'.body \in store'
              /\ NoDatetime(r) => res'.body.datetime = now]_vars

\* C14 (amended): such a request is answered 201 when the datetime is absent,
\* empty or a string that parses as a date, which is then stored; it is
\* answered 400 and nothing is stored when the string does not parse; without
\* a datetime the stored datetime is the time of the request.
C14_DatetimeCastToDate ==
    [][\A r \in DatetimeRequests :
          PostEquipment(r) =>
              IF ~NoDatetime(r) /\ r.datetime.v = "amanha"
              THEN res'.code = 400 /\ store' = store
              ELSE /\ res'.code = 201 /\ res'.body \in store'
                   /\ NoDatetime(r) => res'.body.datetime = now
                   /\ (~NoDatetime(r) /\ r.datetime.v = "1970-01-01T00:00:00.000Z")
                         => res'.body.datetime = 0]_vars

C14_Witness ==
    /\ res.op = "create" /\ res.code = 400
    /\ \E d \in store : d.datetime = 0 /\ d.createdAt = 1


\* C15: while a submission is in flight (its POST is sent and its response
\* has not been handled) loading is true, so the submit button is disabled.
C15_LoadingWhileSubmitting == InFlight("submit") # {} => loading

\* C16: when no request is in flight and every request so far succeeded, the
\* client's list holds exactly the stored reports, each with its stored
\* status.
C16_ListMatchesStore ==
    ((\A i \in 1..MaxInFlight : net[i] = Idle) /\ ~failed)
        => /\ Len(equipments) = Cardinality(store)
           /\ {<<equipments[k]._id, equipments[k].status>> : k \in 1..Len(equipments)}
                 = {<<d._id, d.status>> : d \in store}

====
